---- MODULE Spec2Model ----
(***************************************************************************)
(* bitumen: a flat archive format.  The encoder (append_to_archive,        *)
(* recursive_archive) linearizes a filesystem subtree into a byte vector;  *)
(* the decoder (read_meta, read1, read) walks a byte cursor and reports    *)
(* one entry per header/path/body/footer group.                            *)
(*                                                                         *)
(* Machine words are kept at their width.  TLC's integers are 32-bit       *)
(* signed, so a u32 or u64 is the tuple of its bytes in memory order       *)
(* (little-endian, the byte order of the targets the crate is built for);  *)
(* a u16 is a natural number below 65536.                                  *)
(***************************************************************************)
EXTENDS Integers, Sequences, FiniteSets, TLC

VARIABLES
    fs,        \* the filesystem: a set of nodes (path, kind, body, ...)
    pc,        \* position of the program: see Init and the actions
    entries,   \* recursive_archive: the Vec<PathBuf> filled by find
    idx,       \* recursive_archive: index of the next element of entries
    archive,   \* the Vec<u8> written by the encoder, read by the decoder
    calls,     \* history: one record per append_to_archive call
    pos,       \* the decoder's Cursor position
    reported,  \* the entries the decoder has logged with log::info!
    attempts,  \* history: one record per read1 call
    probe      \* input and result of a pure function under test

vars == <<fs, pc, entries, idx, archive, calls, pos, reported, attempts, probe>>

(***************************************************************************)
(* Bounds of the model.                                                    *)
(***************************************************************************)
\* longest byte sequence handed to digest in SpecDigest
MaxDigestLen == 3
\* largest file body, in bytes, of the enumerated filesystems
MaxFileSize == 2
\* SpecPath draws paths of 1..MaxShortPath bytes and of 65535 up to
\* 65536 + LongExtra bytes
MaxShortPath == 20
\* read is followed for at most this many calls of read1
MaxAttempts == 8
LongExtra == 1
\* SpecRecord draws each integer field from the values 0 and 2^(8i) - 1 for
\* i up to this bound
MaxFieldBytes == 2

(***************************************************************************)
(* Bytes and words.                                                        *)
(***************************************************************************)
Byte == 0..255

\* a sequence as an explicit tuple
Tup(s) == s \o <<>>

RECURSIVE BitOp(_, _, _, _)
\* bitwise combination of two naturals, bit by bit: f is a 2x2 truth table
\* indexed [bit of a][bit of b]
BitOp(f, a, b, n) ==
    IF n = 0 THEN 0
    ELSE f[a % 2][b % 2] + 2 * BitOp(f, a \div 2, b \div 2, n - 1)

XorTable == [x \in 0..1 |-> [y \in 0..1 |-> (x + y) % 2]]
OrTable == [x \in 0..1 |-> [y \in 0..1 |-> IF x + y > 0 THEN 1 ELSE 0]]
AndTable == [x \in 0..1 |-> [y \in 0..1 |-> x * y]]

\* the ^ of two 4-bit values, tabulated once
XorNibble ==
    [a \in 1..16 |->
        [b \in 1..16 |-> BitOp(XorTable, a - 1, b - 1, 4)] \o <<>>] \o <<>>

\* u8 ^ u8
XorByte(a, b) ==
    XorNibble[(a % 16) + 1][(b % 16) + 1]
        + 16 * XorNibble[(a \div 16) + 1][(b \div 16) + 1]

\* u32 ^ u32
Xor32(v, w) ==
    <<XorByte(v[1], w[1]), XorByte(v[2], w[2]),
      XorByte(v[3], w[3]), XorByte(v[4], w[4])>>

\* u32 | u32
Or32(v, w) == [i \in 1..4 |-> BitOp(OrTable, v[i], w[i], 8)] \o <<>>

\* u32 & u32
And32(v, w) == [i \in 1..4 |-> BitOp(AndTable, v[i], w[i], 8)] \o <<>>

\* u32 << 1 (the bit shifted out of bit 31 is dropped)
Shl1(w) ==
    <<(w[1] * 2) % 256,
      ((w[2] * 2) % 256) + (w[1] \div 128),
      ((w[3] * 2) % 256) + (w[2] \div 128),
      ((w[4] * 2) % 256) + (w[3] \div 128)>>

\* u32 >> 1
Shr1(w) ==
    <<(w[1] \div 2) + 128 * (w[2] % 2),
      (w[2] \div 2) + 128 * (w[3] % 2),
      (w[3] \div 2) + 128 * (w[4] % 2),
      w[4] \div 2>>

\* !u32
Not32(w) == <<255 - w[1], 255 - w[2], 255 - w[3], 255 - w[4]>>

RECURSIVE ReverseBits(_, _)
\* the n low bits of b in reverse order
ReverseBits(b, n) ==
    IF n = 0 THEN 0
    ELSE (b % 2) * (2 ^ (n - 1)) + ReverseBits(b \div 2, n - 1)

\* u8::reverse_bits
reverse_bits8(b) == ReverseBits(b, 8)

\* u32::reverse_bits
reverse_bits32(w) ==
    <<reverse_bits8(w[4]), reverse_bits8(w[3]),
      reverse_bits8(w[2]), reverse_bits8(w[1])>>

\* a natural below 2^31 as u16, u32, u64
U16Bytes(n) == <<n % 256, (n \div 256) % 256>>
U32(n) == <<n % 256, (n \div 256) % 256, (n \div 65536) % 256, n \div 16777216>>
U64(n) == U32(n) \o <<0, 0, 0, 0>>

\* the u16 held in two bytes
U16Of(b) == b[1] + 256 * b[2]

(***************************************************************************)
(* crc32.rs                                                                *)
(***************************************************************************)
Mutant_POLYNOMIAL == <<183, 29, 193, 5>>

\* const POLYNOMIAL: u32 = 0x04C11DB7
POLYNOMIAL == <<183, 29, 193, 4>>

RECURSIVE digest_bits(_, _)
\* for _ in 0..8 { if crc & (1 << 31) > 0 { crc = (crc << 1) ^ POLYNOMIAL }
\*                 else { crc = crc << 1 } }
digest_bits(crc, n) ==
    IF n = 0 THEN crc
    ELSE IF crc[4] >= 128
         THEN digest_bits(Xor32(Shl1(crc), POLYNOMIAL), n - 1)
         ELSE digest_bits(Shl1(crc), n - 1)

RECURSIVE digest_bytes(_, _, _)
\* for byte in bytes { crc = crc ^ ((byte.reverse_bits() as u32) << 24); ... }
\* from the k-th byte on.  (crc[4] < 0 is never true: reading crc here makes
\* TLC evaluate it at every byte instead of piling up delayed values.)
digest_bytes(crc, bytes, k) ==
    IF k > Len(bytes) \/ crc[4] < 0 THEN crc
    ELSE LET x == <<crc[1], crc[2], crc[3],
                    XorByte(crc[4], reverse_bits8(bytes[k]))>>
         IN  digest_bytes(digest_bits(x, 8), bytes, k + 1)

\* pub fn digest(bytes: &[u8]) -> u32
digest(bytes) ==
    Not32(reverse_bits32(digest_bytes(Not32(U32(0)), Tup(bytes), 1)))

(***************************************************************************)
(* flags.rs                                                                *)
(***************************************************************************)
FILE == 0
DIR == 1
SOFT_LINK == 2
HARD_LINK == 3
HEADER == 8

(***************************************************************************)
(* lib.rs: Metadata                                                        *)
(***************************************************************************)
\* const MAGIC: u32 = 0x2f_96_8b_6a
MAGIC == <<106, 139, 150, 47>>

\* #[repr(C)] struct Metadata: the fields in declaration order
FieldNames ==
    <<"modified_at", "file_size", "path_len", "perms", "owner", "group",
      "magic", "flags", "checksum">>

\* size in bytes of each field's type (u64, u64, u16 x 4, u32 x 3); a
\* primitive's alignment is its size
FieldSize == <<8, 8, 2, 2, 2, 2, 4, 4, 4>>

AlignUp(n, a) == ((n + a - 1) \div a) * a

RECURSIVE EndOf(_)
\* repr(C): each field is placed at the next multiple of its alignment
EndOf(k) ==
    IF k = 0 THEN 0 ELSE AlignUp(EndOf(k - 1), FieldSize[k]) + FieldSize[k]

OffsetOf(k) == EndOf(k) - FieldSize[k]

FieldIndex(name) == CHOOSE k \in 1..Len(FieldNames) : FieldNames[k] = name

\* std::mem::size_of::<Metadata>(): the end of the last field rounded up to
\* the alignment of the struct, which is that of its u64 fields
size_of_Metadata == AlignUp(EndOf(Len(FieldNames)), 8)

\* the bytes of field k of self in memory
FieldBytes(self, k) ==
    LET v == self[FieldNames[k]]
    IN  IF FieldSize[k] = 2 THEN U16Bytes(v) ELSE v

RECURSIVE Layout(_, _, _)
\* the memory of the first k fields; a padding byte holds pad
Layout(self, pad, k) ==
    IF k = 0 THEN <<>>
    ELSE LET prev == Layout(self, pad, k - 1)
         IN  prev \o [i \in 1..(OffsetOf(k) - Len(prev)) |-> pad]
                  \o FieldBytes(self, k)

\* the size_of::<Metadata>() bytes at self as *const u8.  The bytes after the
\* last field are padding, which the struct literal never initializes: they
\* hold whatever the build left there, here the byte pad
Memory(self, pad) ==
    LET f == Layout(self, pad, Len(FieldNames))
    IN  f \o [i \in 1..(size_of_Metadata - Len(f)) |-> pad]

\* std::mem::transmute::<[u8; 40], Metadata>
transmute(bytes) ==
    [name \in {FieldNames[k] : k \in 1..Len(FieldNames)} |->
        LET k == FieldIndex(name)
            b == SubSeq(bytes, OffsetOf(k) + 1, OffsetOf(k) + FieldSize[k])
        IN  IF FieldSize[k] = 2 THEN U16Of(b) ELSE b]

\* fn check(&mut self) -> Result<(), ()>
check(self) == self.magic = MAGIC

\* fn kind(&self) -> &'static str
kind(self) ==
    LET file_flag == And32(self.flags, U32(3))
    IN  CASE file_flag = U32(0) -> "File"
          [] file_flag = U32(1) -> "Directory"
          [] file_flag = U32(2) -> "Soft Link"
          [] file_flag = U32(3) -> "Hard Link"

Mutant_as_bytes_without_checksum(self, pad) ==
    SubSeq(Memory(self, pad), 1, EndOf(FieldIndex("checksum")))

\* fn as_bytes_without_checksum(&self) -> &[u8]: chck_ptr - this_ptr bytes
\* from the start of the struct
as_bytes_without_checksum(self, pad) ==
    SubSeq(Memory(self, pad), 1, OffsetOf(FieldIndex("checksum")))

\* fn compute_checksum(&self) -> u32
compute_checksum(self, pad) == digest(as_bytes_without_checksum(self, pad))

\* fn assert_checksum_valid(&self): TRUE when the assert_eq! passes
assert_checksum_valid(self, pad) == self.checksum = compute_checksum(self, pad)

\* fn set_checksum(&mut self): the record left in self.  The assert_eq! that
\* ends it is assert_checksum_valid of that record
set_checksum(self, pad) ==
    [self EXCEPT !.checksum = compute_checksum(self, pad)]

\* fn as_bytes(&self) -> &[u8]: the bytes it returns when its assertion,
\* assert_checksum_valid(self), passes
as_bytes(self, pad) == Memory(self, pad)

Mutant_path_len_cast(len) == (len + 1) % 65536

(***************************************************************************)
(* lib.rs: the records append_to_archive builds (lines 145-163)            *)
(***************************************************************************)
\* path_str.len() as u16 (line 148): the 16 low bits of the length
path_len_cast(len) == len % 65536

\* let meta = Metadata { modified_at, file_size, path_len: path_str.len() as _,
\*                       perms: 0, owner: 0, group: 0, magic: MAGIC, flags,
\*                       checksum: 0 }
\* modified_at and file_size are u64 values, len is the usize path_str.len(),
\* whose cast to u16 keeps its 16 low bits
meta_literal(modified_at, file_size, len, flags) ==
    [modified_at |-> modified_at,
     file_size   |-> file_size,
     path_len    |-> path_len_cast(len),
     perms       |-> 0,
     owner       |-> 0,
     group       |-> 0,
     magic       |-> MAGIC,
     flags       |-> U32(flags),
     checksum    |-> U32(0)]

Mutant_header_meta_late(meta, pad) ==
    [set_checksum(meta, pad) EXCEPT !.flags = Or32(@, U32(HEADER))]

Mutant_header_meta(meta, pad) == set_checksum(meta, pad)

\* let mut header_meta = meta.clone(); header_meta.flags |= flags::HEADER;
\* header_meta.set_checksum();
header_meta(meta, pad) ==
    set_checksum([meta EXCEPT !.flags = Or32(@, U32(HEADER))], pad)

Mutant_footer_meta(meta, pad) == header_meta(meta, pad)

\* let mut footer_meta = meta.clone(); footer_meta.set_checksum();
footer_meta(meta, pad) == set_checksum(meta, pad)

\* what uninitialized padding bytes may hold
Uninit == {0, 255}

(***************************************************************************)
(* Pure functions under test: digest, and the Metadata record.             *)
(***************************************************************************)
NoFs == {}

Idle ==
    /\ fs = NoFs
    /\ entries = <<>>
    /\ idx = 0
    /\ archive = <<>>
    /\ calls = <<>>
    /\ pos = 0
    /\ reported = <<>>
    /\ attempts = <<>>

RECURSIVE SeqsUpTo(_, _)
\* the sequences over S of length at most n
SeqsUpTo(S, n) ==
    IF n = 0 THEN {<<>>}
    ELSE LET T == SeqsUpTo(S, n - 1)
         IN  T \cup {Append(t, x) : t \in {u \in T : Len(u) = n - 1}, x \in S}

\* the ASCII bytes of "123456789"
CheckString == <<49, 50, 51, 52, 53, 54, 55, 56, 57>>

DigestInputs == SeqsUpTo({0, 1, 128, 255}, MaxDigestLen) \cup {CheckString}

InitDigest ==
    /\ Idle
    /\ pc = "digest"
    /\ \E b \in DigestInputs : probe = [in |-> b, done |-> FALSE, out |-> U32(0)]

\* crc32::digest applied to the drawn input
DigestProbe ==
    /\ pc = "digest"
    /\ ~probe.done
    /\ probe' = [probe EXCEPT !.done = TRUE, !.out = digest(probe.in)]
    /\ UNCHANGED <<fs, pc, entries, idx, archive, calls, pos, reported, attempts>>

SpecDigest == InitDigest /\ [][DigestProbe]_vars

\* sample values of an integer field: 0 and the largest value of 1, 2, ... bytes
FieldSamples == {0} \cup {2 ^ (8 * i) - 1 : i \in 1..MaxFieldBytes}

InitRecord ==
    /\ Idle
    /\ pc = "record"
    /\ \E m \in FieldSamples, s \in FieldSamples, l \in FieldSamples,
          f \in {FILE, DIR} :
          probe = [in |-> [modified_at |-> U64(m), file_size |-> U64(s),
                           len |-> l, flags |-> f],
                   done |-> FALSE]

\* the placeholder the test as_bytes_without_checksum stores: 0xAA_BB_AA_BB
Placeholder == <<187, 170, 187, 170>>

\* what RecordProbe leaves in probe
RecordResult(in, h, f, hp, fp, b1, b2) ==
    [in |-> in, done |-> TRUE,
     header |-> h, footer |-> f,
     asserts |-> assert_checksum_valid(h, hp) /\ assert_checksum_valid(f, fp),
     header_bytes |-> as_bytes(h, hp),
     footer_bytes |-> as_bytes(f, fp),
     size |-> size_of_Metadata,
     b1 |-> b1, b2 |-> b2]

\* The records of one entry (append_to_archive, lines 145-163) built from the
\* drawn fields, their serialization (lines 166, 171), and on the same record
\* the tests header_size_test and as_bytes_without_checksum (lines 86-105).
RecordProbe ==
    /\ pc = "record"
    /\ ~probe.done
    /\ \E hp \in Uninit, fp \in Uninit :
          LET in == probe.in
              meta == meta_literal(in.modified_at, in.file_size, in.len, in.flags)
          IN  probe' = RecordResult(in, header_meta(meta, hp), footer_meta(meta, fp),
                          hp, fp,
                          as_bytes_without_checksum(meta, hp),
                          as_bytes_without_checksum(
                              [meta EXCEPT !.checksum = Placeholder], hp))
    /\ UNCHANGED <<fs, pc, entries, idx, archive, calls, pos, reported, attempts>>

SpecRecord == InitRecord /\ [][RecordProbe]_vars

(***************************************************************************)
(* The filesystem the encoder reads.  A node is what lstat sees at a path: *)
(* a regular file with its body, a directory with the names read_dir       *)
(* yields in the order it yields them, a symbolic link with its target, or *)
(* a fifo.  mtime is in seconds from the Unix epoch and may be negative.   *)
(***************************************************************************)
Slash == 47

\* Path::join
join(path, name) == path \o <<Slash>> \o name

FileNode(path, body, mtime) ==
    [path |-> path, kind |-> "file", body |-> body, names |-> <<>>,
     target |-> <<>>, mtime |-> mtime]
DirNode(path, names, mtime) ==
    [path |-> path, kind |-> "dir", body |-> <<>>, names |-> names,
     target |-> <<>>, mtime |-> mtime]
LinkNode(path, target) ==
    [path |-> path, kind |-> "symlink", body |-> <<>>, names |-> <<>>,
     target |-> target, mtime |-> 0]
FifoNode(path, mtime) ==
    [path |-> path, kind |-> "fifo", body |-> <<>>, names |-> <<>>,
     target |-> <<>>, mtime |-> mtime]

\* the result of a failed stat
NotFound == [kind |-> "none"]

\* PATH_MAX of Linux, the terminating NUL counted
PATH_MAX == 4096

\* lstat(2): the node at path itself; ENAMETOOLONG where the system limits
\* the length of a path
lstat(F, path) ==
    IF Len(path) >= F.path_max THEN NotFound
    ELSE IF \E n \in F.nodes : n.path = path
    THEN CHOOSE n \in F.nodes : n.path = path
    ELSE NotFound

\* stat(2), which Path::metadata, is_file and is_dir call: a symbolic link
\* is followed to its target
stat(F, path) ==
    LET n == lstat(F, path)
    IN  IF n.kind = "symlink" THEN lstat(F, n.target) ELSE n

\* Path::is_file
is_file(F, path) == stat(F, path).kind = "file"

\* Path::is_dir
is_dir(F, path) == stat(F, path).kind = "dir"

\* std::fs::read_dir(path) collected: entry.path() of each entry, in order
read_dir(F, path) ==
    LET names == stat(F, path).names
    IN  [i \in 1..Len(names) |-> join(path, names[i])] \o <<>>

Mutant_append_write(path_str, body, pad, header, footer) ==
    [status |-> "ok", why |-> "",
     written |-> as_bytes(header, pad) \o body \o path_str
                 \o as_bytes(footer, pad)]

(***************************************************************************)
(* lib.rs: append_to_archive                                               *)
(***************************************************************************)
\* Lines 166-173: the four writes, each of which starts by the assertion of
\* as_bytes.  The assertions are those set_checksum made on the same records
\* (lines 160, 163), so a record that fails one never gets as far as a write.
append_write(path_str, body, pad, header, footer) ==
    IF ~assert_checksum_valid(header, pad) \/ ~assert_checksum_valid(footer, pad)
    THEN [status |-> "panic", why |-> "assert", written |-> <<>>]
    ELSE [status |-> "ok", why |-> "",
          written |-> as_bytes(header, pad) \o path_str \o body
                      \o as_bytes(footer, pad)]

\* Lines 145-163: meta, header_meta and footer_meta
append_records(path_str, body, pad, modified_at, file_size, flags) ==
    append_write(path_str, body, pad,
        header_meta(meta_literal(modified_at, file_size, Len(path_str), flags), pad),
        footer_meta(meta_literal(modified_at, file_size, Len(path_str), flags), pad))

\* Lines 119-143, md being what stat returns for path: the modification time,
\* then the classification of the object by is_file and is_dir.  file_size is
\* file.metadata()?.len() of the opened file and body what
\* std::io::copy(file, archive) copies from it
append_classify(F, path, pad, md) ==
    IF md = NotFound
    THEN \* path.metadata()? fails
         [status |-> "err", why |-> "metadata", written |-> <<>>]
    ELSE IF md.mtime < 0
    THEN \* duration_since(UNIX_EPOCH).unwrap() on a time before the epoch
         [status |-> "panic", why |-> "unwrap", written |-> <<>>]
    ELSE IF is_file(F, path) /\ path \in F.denied
    THEN \* std::fs::File::open(path)? fails
         [status |-> "err", why |-> "open", written |-> <<>>]
    ELSE IF is_file(F, path)
    THEN append_records(path, md.body, pad, U64(md.mtime), U64(Len(md.body)), FILE)
    ELSE IF is_dir(F, path)
    THEN append_records(path, <<>>, pad, U64(md.mtime), U64(0), DIR)
    ELSE \* todo!("can only handle files and directories for now")
         [status |-> "panic", why |-> "todo", written |-> <<>>]

\* One call of append_to_archive(archive, path) on filesystem F, pad being
\* what the padding bytes of the two records hold.  status is "ok" (Ok(())),
\* "err" (an io::Error returned by ?) or "panic"; written is what the call
\* pushed onto archive, a Vec<u8>, whose write takes the whole buffer.
append_to_archive(F, path, pad) == append_classify(F, path, pad, stat(F, path))

(***************************************************************************)
(* lib.rs: recursive_archive                                               *)
(***************************************************************************)
RECURSIVE find(_, _)
RECURSIVE find_each(_, _, _)
RECURSIVE find_fails(_, _)
Mutant_find(F, path) ==
    (IF is_dir(F, path) THEN find_each(F, read_dir(F, path), 1) ELSE <<>>)
        \o <<path>>

\* fn find(path, files): files.push(path.into()); if path.is_dir() { for
\* entry in read_dir(path)? { find(&entry?.path(), files)? } }
\* The value is what the call pushes onto files.
find(F, path) ==
    <<path>> \o (IF is_dir(F, path) THEN find_each(F, read_dir(F, path), 1)
                 ELSE <<>>)

\* the iterations of the for loop of find from the k-th entry on
find_each(F, paths, k) ==
    IF k > Len(paths) THEN <<>>
    ELSE find(F, paths[k]) \o find_each(F, paths, k + 1)

\* whether find(path, files) returns Err: read_dir(path)? fails on a
\* directory the user may not read, and find(..)? hands a failure up
find_fails(F, path) ==
    /\ is_dir(F, path)
    /\ \/ path \in F.denied
       \/ \E k \in 1..Len(read_dir(F, path)) : find_fails(F, read_dir(F, path)[k])

(***************************************************************************)
(* The decoder's stream: std::io::Cursor<Vec<u8>> (archiver.rs line 12).   *)
(***************************************************************************)
\* a position at or beyond 2^31 - 1, past the end of every archive here
Beyond == 2147483647

\* Read::read_exact of n bytes at pos.  On a short read the position is left
\* in place or moved to the end of the data, depending on the version of
\* std: to_end tells which.
read_exact(arch, at, n, to_end) ==
    IF at < Beyond /\ at + n <= Len(arch)
    THEN [ok |-> TRUE, bytes |-> SubSeq(arch, at + 1, at + n), pos |-> at + n]
    ELSE [ok |-> FALSE, bytes |-> <<>>,
          pos |-> IF to_end THEN Len(arch) ELSE at]

\* the four low bytes of a u64 as a natural, when they are below 2^31
Low31(b) == b[1] + 256 * b[2] + 65536 * b[3] + 16777216 * b[4]

\* Seek::seek(SeekFrom::Current(n as i64)) for the u64 n held in the bytes b:
\* pos.checked_add_signed(n as i64), an error when the sum leaves 0..2^64-1
seek_current(at, b) ==
    IF b[8] < 128
    THEN \* n as i64 >= 0
         IF b[5] = 0 /\ b[6] = 0 /\ b[7] = 0 /\ b[8] = 0 /\ b[4] < 128
            /\ at < Beyond /\ Low31(b) <= Beyond - at
         THEN [ok |-> TRUE, pos |-> at + Low31(b)]
         ELSE [ok |-> TRUE, pos |-> Beyond]
    ELSE \* n as i64 < 0: n - 2^64, of magnitude m1 + 1
         IF b[5] = 255 /\ b[6] = 255 /\ b[7] = 255 /\ b[8] = 255 /\ b[4] >= 128
         THEN LET m1 == (255 - b[1]) + 256 * (255 - b[2])
                        + 65536 * (255 - b[3]) + 16777216 * (255 - b[4])
              IN  IF at > m1 THEN [ok |-> TRUE, pos |-> (at - m1) - 1]
                  ELSE [ok |-> FALSE, pos |-> at]
         ELSE IF at = Beyond THEN [ok |-> TRUE, pos |-> Beyond]
              ELSE [ok |-> FALSE, pos |-> at]

(***************************************************************************)
(* String::from_utf8_lossy: well-formed UTF-8 sequences are kept, every    *)
(* maximal ill-formed run of bytes becomes U+FFFD (EF BF BD).              *)
(***************************************************************************)
REPLACEMENT == <<239, 191, 189>>

\* number of bytes of the sequence a lead byte announces (0: not a lead byte)
Utf8Width(b) ==
    IF b < 128 THEN 1
    ELSE IF b >= 194 /\ b <= 223 THEN 2
    ELSE IF b >= 224 /\ b <= 239 THEN 3
    ELSE IF b >= 240 /\ b <= 244 THEN 4
    ELSE 0

\* whether c may follow lead byte b as the second byte of its sequence
Utf8Second(b, c) ==
    CASE b = 224 -> c >= 160 /\ c <= 191
      [] b = 237 -> c >= 128 /\ c <= 159
      [] b = 240 -> c >= 144 /\ c <= 191
      [] b = 244 -> c >= 128 /\ c <= 143
      [] OTHER   -> c >= 128 /\ c <= 191

Utf8Cont(c) == c >= 128 /\ c <= 191

\* The chunk starting at byte i of v: its length and whether it is well
\* formed.  An ill-formed chunk ends before the first byte that cannot
\* continue the sequence.
Utf8Chunk(v, i) ==
    LET w == Utf8Width(v[i])
        has(j) == i + j <= Len(v)
    IN  IF w = 0 THEN [valid |-> FALSE, len |-> 1]
        ELSE IF w = 1 THEN [valid |-> TRUE, len |-> 1]
        ELSE IF ~has(1) \/ ~Utf8Second(v[i], v[i + 1])
             THEN [valid |-> FALSE, len |-> 1]
        ELSE IF w = 2 THEN [valid |-> TRUE, len |-> 2]
        ELSE IF ~has(2) \/ ~Utf8Cont(v[i + 2])
             THEN [valid |-> FALSE, len |-> 2]
        ELSE IF w = 3 THEN [valid |-> TRUE, len |-> 3]
        ELSE IF ~has(3) \/ ~Utf8Cont(v[i + 3])
             THEN [valid |-> FALSE, len |-> 3]
        ELSE [valid |-> TRUE, len |-> 4]

RECURSIVE lossy_from(_, _)
\* the conversion of v from byte i on: the bytes themselves when all are
\* ASCII, else the first chunk or its replacement, then the rest
lossy_from(v, i) ==
    IF i > Len(v) THEN <<>>
    ELSE IF \A j \in i..Len(v) : v[j] < 128 THEN SubSeq(v, i, Len(v))
    ELSE LET c == Utf8Chunk(v, i)
         IN  (IF c.valid THEN SubSeq(v, i, i + c.len - 1) ELSE REPLACEMENT)
             \o lossy_from(v, i + c.len)

\* String::from_utf8_lossy(&v): the UTF-8 bytes of the String
from_utf8_lossy(v) == lossy_from(v, 1)

(***************************************************************************)
(* lib.rs: the decoder                                                     *)
(***************************************************************************)
Mutant_read_meta_check(name, meta, at) ==
    IF ~check(meta) THEN [status |-> "Header", meta |-> <<>>, pos |-> at]
    ELSE IF ~assert_checksum_valid(meta, 0)
    THEN [status |-> "Checksum", meta |-> <<>>, pos |-> at]
    ELSE [status |-> "Ok", meta |-> meta, pos |-> at]

\* read_meta, lines 228-234: the transmuted bytes and their check.  name only
\* labels the log lines: a failed check is DecodeError::Header whatever it is
read_meta_check(name, meta, at) ==
    IF ~check(meta) THEN [status |-> "Header", meta |-> <<>>, pos |-> at]
    ELSE [status |-> "Ok", meta |-> meta, pos |-> at]

\* read_meta, lines 222-226: the size_of::<Metadata>() bytes
read_meta_bytes(name, r) ==
    IF ~r.ok THEN [status |-> "Exhausted", meta |-> <<>>, pos |-> r.pos]
    ELSE read_meta_check(name, transmute(r.bytes), r.pos)

\* fn read_meta(name, archive) -> Result<Metadata, DecodeError>
read_meta(name, arch, at, to_end) ==
    read_meta_bytes(name, read_exact(arch, at, size_of_Metadata, to_end))

NoReport == <<>>

Failed(status, stage, at) ==
    [status |-> status, stage |-> stage, pos |-> at, report |-> NoReport]

Mutant_read1_footer(header, path, footer) ==
    [status |-> "Ok", stage |-> "done", pos |-> footer.pos,
     report |-> [kind |-> kind(header.meta),
                 path |-> from_utf8_lossy(path.bytes),
                 size |-> header.meta.file_size]]

\* read1, lines 255-263: the footer, then the entry logged by log::info!
read1_footer(header, path, footer) ==
    IF footer.status # "Ok"
    THEN Failed(footer.status, "footer", footer.pos)
    ELSE [status |-> "Ok", stage |-> "done", pos |-> footer.pos,
          report |-> [kind |-> kind(header.meta),
                      path |-> from_utf8_lossy(path.bytes),
                      size |-> header.meta.file_size]]

\* read1, lines 248-253: archive.seek(SeekFrom::Current(header.file_size as _))
read1_seek(arch, to_end, header, path, seek) ==
    IF ~seek.ok THEN Failed("Crop", "seek", seek.pos)
    ELSE read1_footer(header, path, read_meta("Footer", arch, seek.pos, to_end))

Mutant_read1_path(arch, to_end, header, path) ==
    IF ~path.ok THEN Failed("Exhausted", "path", path.pos)
    ELSE read1_seek(arch, to_end, header, path,
                    seek_current(path.pos, header.meta.file_size))

\* read1, lines 241-246: the path
read1_path(arch, to_end, header, path) ==
    IF ~path.ok THEN Failed("Crop", "path", path.pos)
    ELSE read1_seek(arch, to_end, header, path,
                    seek_current(path.pos, header.meta.file_size))

\* read1, lines 238-239: the header
read1_header(arch, to_end, header) ==
    IF header.status # "Ok" THEN Failed(header.status, "header", header.pos)
    ELSE read1_path(arch, to_end, header,
                    read_exact(arch, header.pos, header.meta.path_len, to_end))

\* fn read1(archive) -> Result<(), DecodeError>: the result, the position
\* the cursor is left at, the stage that ended the attempt, and the entry
\* logged on success
read1(arch, at, to_end) ==
    read1_header(arch, to_end, read_meta("Header", arch, at, to_end))

(***************************************************************************)
(* The filesystems the program is run on.                                  *)
(***************************************************************************)
\* a file body of n bytes
Body(n) == [i \in 1..n |-> 64 + i] \o <<>>

R == <<114>>
A == <<97>>
D == <<100>>
F == <<102>>
L == <<108>>
P == <<112>>
\* a file name that is valid UTF-8 but not ASCII, and one that is not UTF-8
Accented == <<195, 169>>
NotUtf8 == <<97, 255>>
\* paths outside the archived subtree
T == <<116>>
E == <<101>>
X == <<120>>

Epoch2023 == 1700000000

\* a filesystem on a system with the path limit of Linux
Tree(root, nodes) ==
    [root |-> root, nodes |-> nodes, path_max |-> PATH_MAX, denied |-> {}]

\* the same with objects the user may not read: read_dir of such a
\* directory and File::open of such a file fail with EACCES
TreeDenying(root, nodes, denied) ==
    [root |-> root, nodes |-> nodes, path_max |-> PATH_MAX, denied |-> denied]

\* subtrees of directories and regular files, with a file of n bytes
PlainTrees(n) ==
    { Tree(R, {FileNode(R, Body(n), Epoch2023)}),
      Tree(R, {DirNode(R, <<>>, Epoch2023)}),
      Tree(R, {DirNode(R, <<A, D>>, Epoch2023),
               FileNode(join(R, A), Body(n), 1),
               DirNode(join(R, D), <<>>, 0)}),
      Tree(R, {DirNode(R, <<D>>, 256),
               DirNode(join(R, D), <<F>>, 255),
               FileNode(join(join(R, D), F), Body(n), 65536)}),
      Tree(R, {DirNode(R, <<A, D>>, Epoch2023),
               FileNode(join(R, A), Body(n), 1),
               DirNode(join(R, D), <<F>>, 2),
               FileNode(join(join(R, D), F), Body(1), 3)}),
      Tree(R, {DirNode(R, <<Accented>>, Epoch2023),
               FileNode(join(R, Accented), Body(n), 1)}) }

\* the same kinds of object, with a name that is not UTF-8 or a modification
\* time before the epoch
OddTrees(n) ==
    { Tree(R, {DirNode(R, <<NotUtf8>>, Epoch2023),
               FileNode(join(R, NotUtf8), Body(n), 1)}),
      Tree(R, {DirNode(R, <<A>>, Epoch2023),
               FileNode(join(R, A), Body(n), -1)}) }

\* subtrees holding a directory or a file the user may not read, or a
\* dangling link, with objects that come after it in the traversal
DeniedTrees(n) ==
    { TreeDenying(R, {DirNode(R, <<A, D>>, Epoch2023),
                      FileNode(join(R, A), Body(n), 1),
                      DirNode(join(R, D), <<F>>, 2),
                      FileNode(join(join(R, D), F), Body(1), 3)},
                  {join(R, D)}),
      TreeDenying(R, {DirNode(R, <<A, D, F>>, Epoch2023),
                      FileNode(join(R, A), Body(n), 1),
                      DirNode(join(R, D), <<>>, 2),
                      FileNode(join(R, F), Body(1), 3)},
                  {join(R, A)}),
      Tree(R, {DirNode(R, <<L, A>>, Epoch2023),
               LinkNode(join(R, L), X),
               FileNode(join(R, A), Body(n), 1)}) }

\* subtrees holding an object that is neither a directory nor a regular file
OtherTrees(n) ==
    { Tree(R, {DirNode(R, <<L>>, Epoch2023),
               LinkNode(join(R, L), T),
               FileNode(T, Body(n), 1)}),
      Tree(R, {DirNode(R, <<L>>, Epoch2023),
               LinkNode(join(R, L), E),
               DirNode(E, <<>>, 1)}),
      Tree(R, {DirNode(R, <<L>>, Epoch2023),
               LinkNode(join(R, L), X)}),
      Tree(R, {DirNode(R, <<P>>, Epoch2023),
               FifoNode(join(R, P), 1)}) }

PlainFileSystems == UNION {PlainTrees(n) : n \in 0..MaxFileSize}

FileSystems ==
    UNION {PlainTrees(n) \cup OddTrees(n) \cup OtherTrees(n) \cup DeniedTrees(n) :
           n \in 0..MaxFileSize}

(***************************************************************************)
(* archiver.rs: main.  recursive_archive(&mut archive, root), then         *)
(* read(&mut Cursor::new(archive)).                                        *)
(***************************************************************************)
NoProbe == [in |-> <<>>, done |-> TRUE]

InitOn(S) ==
    /\ fs \in S
    /\ pc = "find"
    /\ entries = <<>>
    /\ idx = 0
    /\ archive = <<>>
    /\ calls = <<>>
    /\ pos = 0
    /\ reported = <<>>
    /\ attempts = <<>>
    /\ probe = NoProbe

Init == InitOn(FileSystems)

\* recursive_archive, lines 190-191: let mut entries = vec![];
\* find(path, &mut entries)?
Find ==
    /\ pc = "find"
    /\ IF find_fails(fs, fs.root)
       THEN \* recursive_archive returns the error; entries is dropped
            entries' = <<>> /\ idx' = 0 /\ pc' = "failed"
       ELSE entries' = find(fs, fs.root) /\ idx' = 1 /\ pc' = "dirs"
    /\ UNCHANGED <<fs, archive, calls, pos, reported, attempts, probe>>

\* the position after iteration idx of a loop over entries: the loop goes
\* on, or ends and the program moves to next
After(loop, next) == IF idx < Len(entries) THEN loop ELSE next

Mutant_Call(e, loop, next) ==
    \E pad \in Uninit : \E r \in {append_to_archive(fs, e, pad)} :
            /\ archive' = archive \o r.written
            /\ calls' = Append(calls, [path |-> e, status |-> r.status,
                                       why |-> r.why, loop |-> loop,
                                       start |-> Len(archive),
                                       end |-> Len(archive) + Len(r.written)])
            /\ pc' = CASE r.status = "ok"    -> After(loop, next)
                       [] r.status = "err"   -> After(loop, next)
                       [] r.status = "panic" -> "panicked"
            /\ idx' = IF r.status # "panic" /\ idx = Len(entries) THEN 1
                      ELSE idx + 1

\* the call append_to_archive(archive, &e)? of either loop and where its
\* result leads: on with the loop, out of main with the io::Error, or a panic
Call(e, loop, next) ==
    \E pad \in Uninit : \E r \in {append_to_archive(fs, e, pad)} :
            /\ archive' = archive \o r.written
            /\ calls' = Append(calls, [path |-> e, status |-> r.status,
                                       why |-> r.why, loop |-> loop,
                                       start |-> Len(archive),
                                       end |-> Len(archive) + Len(r.written)])
            /\ pc' = CASE r.status = "ok"    -> After(loop, next)
                       [] r.status = "err"   -> "failed"
                       [] r.status = "panic" -> "panicked"
            /\ idx' = IF r.status = "ok" /\ idx = Len(entries) THEN 1 ELSE idx + 1

\* an iteration that passes over e
Pass(loop, next) ==
    /\ pc' = After(loop, next)
    /\ idx' = IF idx = Len(entries) THEN 1 ELSE idx + 1
    /\ UNCHANGED <<archive, calls>>

\* recursive_archive, lines 193-197: one iteration of
\* for e in entries.iter() { if e.is_dir() { append_to_archive(archive, &e)? } }
DirsLoop ==
    /\ pc = "dirs"
    /\ IF is_dir(fs, entries[idx])
       THEN Call(entries[idx], "dirs", "files")
       ELSE Pass("dirs", "files")
    /\ UNCHANGED <<fs, entries, pos, reported, attempts, probe>>

\* recursive_archive, lines 199-205: one iteration of
\* for e in entries.iter() { if !e.is_dir() { append_to_archive(archive, &e)? } }
\* after the last one recursive_archive returns Ok(()) and main goes on to
\* read the archive from position 0
FilesLoop ==
    /\ pc = "files"
    /\ IF ~is_dir(fs, entries[idx])
       THEN Call(entries[idx], "files", "read")
       ELSE Pass("files", "read")
    /\ UNCHANGED <<fs, entries, pos, reported, attempts, probe>>

Mutant_Read1 ==
    /\ pc = "read"
    /\ Len(attempts) < MaxAttempts
    /\ \E to_end \in BOOLEAN : \E r \in {read1(archive, pos, to_end)} :
              /\ pos' = r.pos
              /\ attempts' = Append(attempts, [start |-> pos, status |-> r.status,
                                               stage |-> r.stage, end |-> r.pos])
              /\ reported' = IF r.status = "Ok" THEN Append(reported, r.report)
                             ELSE reported
              /\ pc' = IF r.status \in {"Ok", "Header"} THEN "read" ELSE "done"
    /\ UNCHANGED <<fs, entries, idx, archive, calls, probe>>

\* read, lines 265-267: one iteration of while let Ok(..) = read1(archive) {}
Read1 ==
    /\ pc = "read"
    /\ Len(attempts) < MaxAttempts
    /\ \E to_end \in BOOLEAN : \E r \in {read1(archive, pos, to_end)} :
              /\ pos' = r.pos
              /\ attempts' = Append(attempts, [start |-> pos, status |-> r.status,
                                               stage |-> r.stage, end |-> r.pos])
              /\ reported' = IF r.status = "Ok" THEN Append(reported, r.report)
                             ELSE reported
              /\ pc' = IF r.status = "Ok" THEN "read" ELSE "done"
    /\ UNCHANGED <<fs, entries, idx, archive, calls, probe>>

Next == Find \/ DirsLoop \/ FilesLoop \/ Read1

Spec == Init /\ [][Next]_vars

(***************************************************************************)
(* The archive under truncation: the stream handed to read is a proper     *)
(* prefix of an archive, cut inside one of its entries.                    *)
(***************************************************************************)
InitTrunc == InitOn(PlainFileSystems)

\* the archive recursive_archive produced is cut before read starts
Truncate ==
    /\ pc = "read"
    /\ attempts = <<>>
    /\ calls # <<>>
    /\ Len(archive) = calls[Len(calls)].end
    /\ \E cut \in 1..(Len(archive) - 1) :
          /\ \E k \in 1..Len(calls) : calls[k].start < cut /\ cut < calls[k].end
          /\ archive' = SubSeq(archive, 1, cut)
    /\ UNCHANGED <<fs, pc, entries, idx, calls, pos, reported, attempts, probe>>

NextTrunc == Find \/ DirsLoop \/ FilesLoop \/ Truncate \/ Read1

SpecTrunc == InitTrunc /\ [][NextTrunc]_vars

(***************************************************************************)
(* append_to_archive and read1 on one file, by the length of its path.     *)
(***************************************************************************)
\* a path of n bytes: "r", slashes, "a"
PathOf(n) ==
    [i \in 1..n |-> IF i = 1 THEN 114 ELSE IF i = n THEN 97 ELSE Slash] \o <<>>

PathLengths ==
    (1..MaxShortPath) \cup {65535} \cup {65536 + i : i \in 0..LongExtra}

\* the limit of Linux, and a system that sets no limit (GNU/Hurd)
PathMaxes == {PATH_MAX, Beyond}

InitPath ==
    /\ Idle
    /\ pc = "path"
    /\ \E n \in PathLengths, size \in 0..MaxFileSize, m \in PathMaxes :
          probe = [in |-> [len |-> n, size |-> size, path_max |-> m],
                   done |-> FALSE]

\* what PathProbe leaves in probe: the outcome of the call, the first bytes
\* it wrote, whether the bytes after them are the path, and what read1 makes
\* of the whole
PathResult(in, path, r, d) ==
    [in |-> in, done |-> TRUE,
     status |-> r.status, why |-> r.why,
     written_len |-> Len(r.written),
     header_bytes |-> IF Len(r.written) >= size_of_Metadata
                      THEN SubSeq(r.written, 1, size_of_Metadata) ELSE <<>>,
     path_follows |-> /\ Len(r.written) >= size_of_Metadata + Len(path)
                      /\ SubSeq(r.written, size_of_Metadata + 1,
                                size_of_Metadata + Len(path)) = path,
     decode |-> d.status, decode_stage |-> d.stage, decode_pos |-> d.pos,
     decode_size |-> IF d.status = "Ok" THEN d.report.size ELSE <<>>]

PathDecode(in, path, r, to_end) ==
    PathResult(in, path, r, read1(r.written, 0, to_end))

PathCall(in, path, pad, to_end) ==
    PathDecode(in, path,
        append_to_archive([root |-> path,
                           nodes |-> {FileNode(path, Body(in.size), 1)},
                           path_max |-> in.path_max, denied |-> {}], path, pad),
        to_end)

\* append_to_archive(&mut archive, path) into an empty Vec for a regular file
\* at a path of the drawn length, then read1 on what it wrote
PathProbe ==
    /\ pc = "path"
    /\ ~probe.done
    /\ \E pad \in Uninit, to_end \in BOOLEAN :
          probe' = PathCall(probe.in, PathOf(probe.in.len), pad, to_end)
    /\ UNCHANGED <<fs, pc, entries, idx, archive, calls, pos, reported, attempts>>

SpecPath == InitPath /\ [][PathProbe]_vars

(***************************************************************************)
(* read on streams the encoder did not produce: records with any magic,    *)
(* checksum and file_size, and every prefix of such a stream.              *)
(***************************************************************************)
BadMagic == <<106, 139, 150, 46>>

\* file_size values of the 64-bit field: 2^63 - 1, 2^64 - 80 and 2^64 - 1000
SizeMax63 == <<255, 255, 255, 255, 255, 255, 255, 127>>
SizeMinus80 == <<176, 255, 255, 255, 255, 255, 255, 255>>
SizeMinus1000 == <<24, 252, 255, 255, 255, 255, 255, 255>>

\* the 40 bytes of a record with the given fields; its checksum is the
\* digest of the record when seal holds, the placeholder otherwise
Image(path_len, file_size, magic, flags, seal) ==
    LET r == [meta_literal(U64(1), file_size, path_len, flags)
                 EXCEPT !.magic = magic]
    IN  IF seal THEN Memory(set_checksum(r, 0), 0)
        ELSE Memory([r EXCEPT !.checksum = Placeholder], 0)

\* header record, path, body, footer record
StreamEntry(path, file_size, body, hmagic, fmagic, seal) ==
    Image(Len(path), file_size, hmagic, FILE + HEADER, seal) \o path \o body
        \o Image(Len(path), file_size, fmagic, FILE, seal)

GoodEntry(path, n, seal) ==
    StreamEntry(path, U64(n), Body(n), MAGIC, MAGIC, seal)

BaseStreams ==
    { GoodEntry(R, MaxFileSize, TRUE) \o GoodEntry(join(R, A), 0, TRUE),
      GoodEntry(R, MaxFileSize, FALSE) \o GoodEntry(join(R, A), 0, FALSE),
      StreamEntry(R, U64(0), <<>>, BadMagic, MAGIC, TRUE) \o GoodEntry(A, 0, TRUE),
      GoodEntry(A, 0, TRUE)
          \o StreamEntry(R, U64(0), <<>>, MAGIC, BadMagic, TRUE)
          \o GoodEntry(A, 0, TRUE),
      GoodEntry(<<>>, 0, TRUE)
          \o Image(0, SizeMinus80, MAGIC, FILE + HEADER, TRUE),
      StreamEntry(R, SizeMax63, Body(MaxFileSize), MAGIC, MAGIC, TRUE),
      StreamEntry(R, SizeMinus1000, Body(MaxFileSize), MAGIC, MAGIC, TRUE) }

\* every prefix of a base stream
Streams == UNION {{SubSeq(S, 1, n) : n \in 0..Len(S)} : S \in BaseStreams}

InitStream ==
    /\ fs = NoFs
    /\ pc = "read"
    /\ entries = <<>>
    /\ idx = 0
    /\ archive \in Streams
    /\ calls = <<>>
    /\ pos = 0
    /\ reported = <<>>
    /\ attempts = <<>>
    /\ probe = NoProbe

SpecStream == InitStream /\ [][Read1]_vars

(***************************************************************************)
(* append_to_archive on a file that another process changes between       *)
(* file.metadata()?.len() (line 136) and std::io::copy (line 169).         *)
(***************************************************************************)
Changes == {"none", "append", "truncate"}

\* the content of a file of n bytes after the change
Changed(n, change) ==
    CASE change = "none"     -> Body(n)
      [] change = "append"   -> Body(n + 1)
      [] change = "truncate" -> Body(IF n > 0 THEN n - 1 ELSE 0)

InitRace ==
    /\ Idle
    /\ pc = "race"
    /\ \E n \in 0..MaxFileSize, len \in 1..MaxShortPath, c \in Changes :
          probe = [in |-> [size |-> n, len |-> len, change |-> c],
                   done |-> FALSE]

\* what RaceProbe leaves in probe
RaceResult(in, r) ==
    [in |-> in, done |-> TRUE, status |-> r.status,
     written_len |-> Len(r.written),
     header_bytes |-> SubSeq(r.written, 1, size_of_Metadata),
     footer_bytes |-> SubSeq(r.written, Len(r.written) - size_of_Metadata + 1,
                             Len(r.written))]

\* One call of append_to_archive on a regular file: file_size is the
\* length the file has when line 136 reads it, the body what io::copy
\* finds in the file at line 169
RaceProbe ==
    /\ pc = "race"
    /\ ~probe.done
    /\ \E pad \in Uninit :
          probe' = RaceResult(probe.in,
                      append_records(PathOf(probe.in.len),
                                     Changed(probe.in.size, probe.in.change),
                                     pad, U64(1), U64(probe.in.size), FILE))
    /\ UNCHANGED <<fs, pc, entries, idx, archive, calls, pos, reported, attempts>>

SpecRace == InitRace /\ [][RaceProbe]_vars

(***************************************************************************)
(* The format as section 3 of the specification lays it out: the fields of *)
(* a 40-byte record at their offsets.                                      *)
(***************************************************************************)
Rec(b) ==
    [modified_at |-> SubSeq(b, 1, 8),
     file_size   |-> SubSeq(b, 9, 16),
     path_len    |-> b[17] + 256 * b[18],
     perms       |-> b[19] + 256 * b[20],
     owner       |-> b[21] + 256 * b[22],
     group       |-> b[23] + 256 * b[24],
     magic       |-> SubSeq(b, 25, 28),
     flags       |-> SubSeq(b, 29, 32),
     checksum    |-> SubSeq(b, 33, 36)]

\* bit 3 of a flags word
HeaderBit(flags) == (flags[1] \div 8) % 2 = 1

\* bits 0-1 of a flags word
KindBits(flags) == flags[1] % 4

\* the calls of append_to_archive that returned Ok(())
OkCalls == {k \in 1..Len(calls) : calls[k].status = "ok"}

\* the header and the footer of the entry call k wrote
HeaderOf(k) == Rec(SubSeq(archive, calls[k].start + 1, calls[k].start + 40))
FooterOf(k) == Rec(SubSeq(archive, calls[k].end - 39, calls[k].end))

\* the archive holds all that the calls wrote
Whole == calls = <<>> \/ Len(archive) = calls[Len(calls)].end

(***************************************************************************)
(* C6                                                                      *)
(***************************************************************************)
RECURSIVE RefBits(_, _)
\* eight steps of the reflected CRC-32: shift right, xor 0xEDB88320 when the
\* bit shifted out is 1
RefBits(crc, n) ==
    IF n = 0 THEN crc
    ELSE IF crc[1] % 2 = 1
         THEN RefBits(Xor32(Shr1(crc), <<32, 131, 184, 237>>), n - 1)
         ELSE RefBits(Shr1(crc), n - 1)

RECURSIVE RefBytes(_, _, _)
RefBytes(crc, bytes, k) ==
    IF k > Len(bytes) \/ crc[1] < 0 THEN crc
    ELSE RefBytes(RefBits(<<XorByte(crc[1], bytes[k]), crc[2], crc[3], crc[4]>>, 8),
                  bytes, k + 1)

\* the standard CRC-32 in its usual least-significant-bit-first form: the
\* register starts at 0xFFFFFFFF, each byte is xored into its low byte, and
\* the result is complemented
RefCrc32(bytes) == Not32(RefBytes(<<255, 255, 255, 255>>, bytes, 1))

\* C6: digest equals the standard CRC-32 on every input drawn; digest of the
\* ASCII bytes of 123456789 is 0xCBF43926 and digest of the empty sequence
\* is 0.
C6_DigestIsCrc32 ==
    (pc = "digest" /\ probe.done) =>
        /\ probe.out = RefCrc32(probe.in)
        /\ probe.in = CheckString => probe.out = <<38, 57, 244, 203>>
        /\ probe.in = <<>> => probe.out = <<0, 0, 0, 0>>

C6_Witness ==
    /\ pc = "digest"
    /\ probe.done
    /\ probe.in = CheckString
    /\ probe.out = <<38, 57, 244, 203>>

(***************************************************************************)
(* C7                                                                      *)
(***************************************************************************)
\* the fields before checksum, in declared order, of the record RecordProbe
\* built its records from
FieldsBeforeChecksum(in) ==
    in.modified_at \o in.file_size \o U16Bytes(in.len) \o <<0, 0, 0, 0, 0, 0>>
        \o MAGIC \o U32(in.flags)

\* C7: a Metadata record is 40 bytes; the checksum is computed over exactly
\* its first 32 bytes, the fields before checksum in declared order; these
\* bytes are the same when the checksum field holds another value, and the
\* checksum computed before the field was set is still the checksum of the
\* record after it was set.
C7_ChecksumInput ==
    (pc = "record" /\ probe.done) =>
        /\ probe.size = 40
        /\ Len(probe.header_bytes) = 40
        /\ Len(probe.footer_bytes) = 40
        /\ Len(probe.b1) = 32
        /\ probe.b1 = FieldsBeforeChecksum(probe.in)
        /\ probe.b1 = SubSeq(probe.footer_bytes, 1, 32)
        /\ probe.b1 = probe.b2
        /\ probe.asserts

C7_Witness ==
    /\ pc = "record"
    /\ probe.done
    /\ probe.in.len = 255
    /\ probe.header.checksum # U32(0)
    /\ probe.b1 = probe.b2
    /\ Len(probe.b1) = 32

(***************************************************************************)
(* C5                                                                      *)
(***************************************************************************)
\* C5: the checksum stored in the header record differs from the checksum
\* stored in the footer record, whatever the shared fields hold.
C5_ChecksumsDiffer ==
    (pc = "record" /\ probe.done) =>
        /\ Rec(probe.header_bytes).checksum # Rec(probe.footer_bytes).checksum
        /\ Rec(probe.header_bytes).file_size = probe.in.file_size
        /\ Rec(probe.footer_bytes).file_size = probe.in.file_size

C5_Witness ==
    /\ pc = "record"
    /\ probe.done
    /\ probe.in.modified_at = U64(65535)
    /\ probe.in.flags = DIR
    /\ Rec(probe.header_bytes).checksum # Rec(probe.footer_bytes).checksum

(***************************************************************************)
(* The subtree as the claims describe it, read off the nodes themselves.   *)
(***************************************************************************)
\* p is q or an ancestor directory of q
IsPrefix(p, q) == Len(p) <= Len(q) /\ SubSeq(q, 1, Len(p)) = p
Ancestor(p, q) == Len(p) < Len(q) /\ IsPrefix(p \o <<Slash>>, q)

\* the nodes of the subtree at the root
Subtree(G) == {n \in G.nodes : n.path = G.root \/ Ancestor(G.root, n.path)}

\* the subtree holds directories and regular files only, at paths a u16
\* counts (C1 is stated for such a subtree all of whose objects can be read)
PlainSubtree(G) ==
    \A n \in Subtree(G) : n.kind \in {"file", "dir"} /\ Len(n.path) <= 65535

RECURSIVE PreOrder(_, _)
RECURSIVE PreOrderEach(_, _, _, _)
\* the nodes of the subtree at path in depth-first pre-order
PreOrder(G, path) ==
    LET n == CHOOSE m \in G.nodes : m.path = path
    IN  <<n>> \o PreOrderEach(G, path, n.names, 1)

PreOrderEach(G, path, names, k) ==
    IF k > Len(names) THEN <<>>
    ELSE PreOrder(G, join(path, names[k])) \o PreOrderEach(G, path, names, k + 1)

IsDirNode(n) == n.kind = "dir"
IsFileNode(n) == n.kind = "file"

\* all directories in pre-order, then all files in pre-order
ArchiveOrder(G) ==
    SelectSeq(PreOrder(G, G.root), IsDirNode)
        \o SelectSeq(PreOrder(G, G.root), IsFileNode)

\* what the decoder is said to report for a node
ReportOf(n) ==
    [kind |-> IF n.kind = "dir" THEN "Directory" ELSE "File",
     path |-> n.path,
     size |-> U64(Len(n.body))]

Ended == pc \in {"done", "failed", "panicked"}

(***************************************************************************)
(* C1                                                                      *)
(***************************************************************************)
\* C1: on a subtree of N directories and M regular files, recursive_archive
\* into an empty stream followed by read reports exactly N+M entries, the
\* i-th with the kind, path and size of the i-th object in the order "all
\* directories in pre-order, then all files in pre-order".
C1_RoundTrip ==
    (PlainSubtree(fs) /\ fs.denied = {} /\ Ended) =>
        /\ pc = "done"
        /\ reported = [i \in 1..Len(ArchiveOrder(fs)) |->
                          ReportOf(ArchiveOrder(fs)[i])]

\* the round trip of C1 on the subtrees whose paths are UTF-8 and whose
\* modification times are not before the epoch
RoundTripOtherwise ==
    (PlainSubtree(fs) /\ fs.denied = {} /\ Ended
        /\ \A n \in Subtree(fs) :
              n.mtime >= 0 /\ from_utf8_lossy(n.path) = n.path) =>
        /\ pc = "done"
        /\ reported = [i \in 1..Len(ArchiveOrder(fs)) |->
                          ReportOf(ArchiveOrder(fs)[i])]

(***************************************************************************)
(* C2                                                                      *)
(***************************************************************************)
\* the archive's entries, in stream order: the successful calls
Written == SelectSeq(calls, LAMBDA c : c.status = "ok")

\* the kind bits of the header of the i-th entry of the archive
WrittenKind(i) ==
    KindBits(Rec(SubSeq(archive, Written[i].start + 1, Written[i].start + 40)).flags)

\* the place of path in entries, the discovery order of the traversal
Discovered(path) == CHOOSE k \in 1..Len(entries) : entries[k] = path

\* C2: in the archive no Directory entry comes after a non-Directory entry;
\* within each of the two groups the entries are in the order in which the
\* traversal discovered them, which starts at the root and has every
\* directory before its descendants.
C2_DirectoriesFirst ==
    Whole =>
        /\ \A i, j \in 1..Len(Written) :
              i < j =>
                /\ WrittenKind(i) # DIR => WrittenKind(j) # DIR
                /\ WrittenKind(i) = WrittenKind(j) =>
                      Discovered(Written[i].path) < Discovered(Written[j].path)
                /\ ~Ancestor(Written[j].path, Written[i].path)
        /\ entries # <<>> => entries[1] = fs.root
        /\ \A i, j \in 1..Len(entries) :
              Ancestor(entries[i], entries[j]) => i < j
        /\ Written # <<>> /\ is_dir(fs, fs.root) => Written[1].path = fs.root

C2_Witness ==
    /\ pc = "read"
    /\ Len(Written) = 4
    /\ Discovered(Written[2].path) > Discovered(Written[3].path)
    /\ WrittenKind(2) = DIR
    /\ WrittenKind(3) = FILE

(***************************************************************************)
(* C3                                                                      *)
(***************************************************************************)
\* what reading the object at path yields: the body of the file it names
ContentAt(path) == stat(fs, path).body

\* seg is one entry for path: a header record, the path, the content when
\* the header says File and nothing when it says Directory, a footer record
IsEntry(seg, path) ==
    LET h == Rec(SubSeq(seg, 1, 40))
        f == Rec(SubSeq(seg, Len(seg) - 39, Len(seg)))
        body == SubSeq(seg, 41 + Len(path), Len(seg) - 40)
    IN  /\ Len(seg) >= 80 + Len(path)
        /\ h.magic = MAGIC /\ HeaderBit(h.flags)
        /\ SubSeq(seg, 41, 40 + Len(path)) = path
        /\ KindBits(h.flags) \in {FILE, DIR}
        /\ KindBits(h.flags) = FILE => body = ContentAt(path)
        /\ KindBits(h.flags) = DIR => body = <<>> /\ h.file_size = U64(0)
        /\ (KindBits(h.flags) = FILE) = (stat(fs, path).kind = "file")
        /\ f.magic = MAGIC /\ ~HeaderBit(f.flags)

C4_HeaderFooterAgree ==
    Whole =>
        \A k \in OkCalls :
            LET h == HeaderOf(k)
                f == FooterOf(k)
            IN  /\ h.modified_at = f.modified_at
                /\ h.file_size = f.file_size
                /\ h.path_len = f.path_len
                /\ h.perms = f.perms
                /\ h.owner = f.owner
                /\ h.group = f.group
                /\ h.magic = MAGIC /\ f.magic = MAGIC
                /\ HeaderBit(h.flags) /\ ~HeaderBit(f.flags)
                /\ h.flags = <<f.flags[1] + 8, f.flags[2], f.flags[3], f.flags[4]>>

C4_Witness ==
    /\ Whole
    /\ \E k \in OkCalls :
          /\ HeaderOf(k).file_size = U64(MaxFileSize)
          /\ FooterOf(k).file_size = U64(MaxFileSize)
          /\ HeaderOf(k).modified_at = U64(65536)
          /\ MaxFileSize > 0

(***************************************************************************)
(* C8                                                                      *)
(***************************************************************************)
\* the number of entries of the archive that lie completely before its end
Complete == Cardinality({i \in 1..Len(Written) : Written[i].end <= Len(archive)})

\* the end of the archive lies strictly inside the path, the body or the
\* footer of the entry call k wrote
CutInPath(k) ==
    /\ calls[k].start + 40 < Len(archive)
    /\ Len(archive) < calls[k].start + 40 + Len(calls[k].path)
CutInBody(k) ==
    /\ calls[k].start + 40 + Len(calls[k].path) < Len(archive)
    /\ Len(archive) < calls[k].end - 40
CutInFooter(k) ==
    /\ calls[k].end - 40 < Len(archive)
    /\ Len(archive) < calls[k].end

\* C8: on an archive cut strictly inside an entry, read ends after at most
\* one attempt more than there are entries completely before the cut, never
\* panics, and reports exactly the entries that lie completely before the
\* cut; the truncated entry is never reported.
C8_TruncatedRead ==
    /\ pc \in {"find", "dirs", "files", "read", "done"}
    /\ Len(attempts) <= Complete + 1
    /\ Len(reported) <= Complete
    /\ pc = "done" =>
          reported = [i \in 1..Complete |-> ReportOf(lstat(fs, Written[i].path))]

C8_Witness ==
    /\ pc = "done"
    /\ Len(reported) = 2
    /\ Len(calls) = 4
    /\ \E k \in 1..Len(calls) : CutInBody(k)

C8_WitnessPath ==
    /\ pc = "done"
    /\ Len(reported) >= 1
    /\ \E k \in 1..Len(calls) : CutInPath(k)

C8_WitnessFooter ==
    /\ pc = "done"
    /\ Len(reported) >= 1
    /\ \E k \in 1..Len(calls) : CutInFooter(k)

(***************************************************************************)
(* C9                                                                      *)
(***************************************************************************)
\* C9: append_to_archive writes an entry only for an object that is itself
\* a regular file or a directory; called on any other kind of object
\* (symbolic link to a file, to a directory or to nothing, fifo) it aborts
\* with the unsupported-kind panic and writes nothing.
C9_OtherKindsAbort ==
    \A k \in 1..Len(calls) :
        lstat(fs, calls[k].path).kind \notin {"file", "dir"} =>
            /\ calls[k].status = "panic"
            /\ calls[k].why = "todo"
            /\ calls[k].end = calls[k].start

(***************************************************************************)
(* C10                                                                     *)
(***************************************************************************)
\* C10: a call of append_to_archive, whatever the length of the path, is
\* either rejected or writes an entry whose header path_len is the number
\* of path bytes written after the header, so that a decoder that reads
\* path_len bytes stands at the start of the body.
C10_PathLenMatches ==
    (pc = "path" /\ probe.done /\ probe.status = "ok") =>
        /\ probe.path_follows
        /\ Rec(probe.header_bytes).path_len = probe.in.len
        /\ probe.decode = "Ok"
        /\ probe.decode_pos = probe.written_len

\* the same for the paths a u16 counts
PathLenMatchesShort ==
    (pc = "path" /\ probe.done /\ probe.in.len <= 65535
        /\ probe.in.len < probe.in.path_max) =>
        /\ probe.status = "ok"
        /\ probe.path_follows
        /\ Rec(probe.header_bytes).path_len = probe.in.len
        /\ probe.decode = "Ok"
        /\ probe.decode_pos = probe.written_len

\* a long path is rejected where the system limits the length of a path
LongPathRejected ==
    (pc = "path" /\ probe.done /\ probe.in.len >= probe.in.path_max) =>
        probe.status = "err" /\ probe.written_len = 0

(***************************************************************************)
(* C11                                                                     *)
(***************************************************************************)
\* the calls recursive_archive is to make: the directories among entries,
\* then the other entries, each group in the order of entries
IsDirPath(p) == is_dir(fs, p)
IsOtherPath(p) == ~is_dir(fs, p)
Schedule == SelectSeq(entries, IsDirPath) \o SelectSeq(entries, IsOtherPath)

\* the traversal meets a directory that cannot be listed
TraversalFails ==
    \E n \in Subtree(fs) : n.kind = "dir" /\ n.path \in fs.denied

\* C11: when the traversal or a call of append_to_archive fails,
\* recursive_archive ends at once: a failed call is the last call and the
\* archive ends with what the calls before it wrote, the calls made are
\* those of the schedule in its order with none passed over, read is
\* reached only when every call of the schedule succeeded, and when the
\* traversal fails no call is made and nothing is written.
C11_FailureAborts ==
    /\ \A k \in 1..Len(calls) : k < Len(calls) => calls[k].status = "ok"
    /\ Len(calls) <= Len(Schedule)
    /\ \A k \in 1..Len(calls) : calls[k].path = Schedule[k]
    /\ \A k \in 1..Len(calls) :
          calls[k].status # "ok" =>
              /\ pc \in {"failed", "panicked"}
              /\ Len(archive) = calls[k].start
              /\ calls[k].end = calls[k].start
    /\ pc \in {"read", "done"} =>
          /\ Len(calls) = Len(Schedule)
          /\ \A k \in 1..Len(calls) : calls[k].status = "ok"
    /\ TraversalFails =>
          /\ calls = <<>> /\ archive = <<>>
          /\ pc \in {"find", "failed"}

\* a call failed with an io::Error while an entry of the schedule was
\* still to be written
C11_Witness ==
    /\ pc = "failed"
    /\ Len(calls) >= 2
    /\ calls[Len(calls)].status = "err"
    /\ Len(calls) < Len(Schedule)
    /\ Len(archive) > 0

\* the traversal failed
C11_WitnessTraversal == pc = "failed" /\ TraversalFails /\ archive = <<>>

(***************************************************************************)
(* C12                                                                     *)
(***************************************************************************)
\* the number of attempts that succeeded
Succeeded == Cardinality({k \in 1..Len(attempts) : attempts[k].status = "Ok"})

\* C12: read stops at the first attempt that does not succeed, whatever
\* its error: a failed attempt is the last attempt, each attempt starts
\* where the one before it ended, after the failure the position is where
\* the failed attempt left it, and the entries reported are those of the
\* successful attempts, all of which precede the failure.
C12_StopsAtFirstFailure ==
    /\ \A k \in 1..Len(attempts) :
          /\ k < Len(attempts) => attempts[k].status = "Ok"
          /\ attempts[k].start = IF k = 1 THEN 0 ELSE attempts[k - 1].end
    /\ (attempts # <<>> /\ attempts[Len(attempts)].status # "Ok") <=> pc = "done"
    /\ attempts # <<>> => pos = attempts[Len(attempts)].end
    /\ Len(reported) = Succeeded

\* read stopped on a record with a wrong magic although whole records
\* with the right magic follow in the stream
C12_Witness ==
    /\ pc = "done"
    /\ Succeeded = 1
    /\ attempts[Len(attempts)].status = "Header"
    /\ pos + 80 < Len(archive)
    /\ SubSeq(archive, Len(archive) - 39, Len(archive))
          = Image(1, U64(0), MAGIC, FILE, TRUE)

(***************************************************************************)
(* C13                                                                     *)
(***************************************************************************)
\* the 40 bytes at position at of the archive, when they are all there
RecordAt(at) == Rec(SubSeq(archive, at + 1, at + 40))

\* attempt k read a whole record at the header position and its magic is
\* not the constant
HeaderMagicWrong(k) ==
    /\ attempts[k].start + 40 <= Len(archive)
    /\ RecordAt(attempts[k].start).magic # MAGIC

\* attempt k read a whole record at the footer position and did not accept it
FooterMagicWrong(k) ==
    /\ attempts[k].stage = "footer"
    /\ attempts[k].status \notin {"Ok", "Exhausted"}
    /\ attempts[k].end >= 40 /\ attempts[k].end <= Len(archive)
    /\ RecordAt(attempts[k].end - 40).magic # MAGIC

\* C13: a record read in full whose magic is not the constant ends the
\* attempt with Header when read at the header position and with Footer
\* when read at the footer position.
C13_NamedByPosition ==
    \A k \in 1..Len(attempts) :
        /\ HeaderMagicWrong(k) => attempts[k].status = "Header"
        /\ FooterMagicWrong(k) => attempts[k].status = "Footer"

\* the half of C13 about the header position
HeaderMismatchIsHeader ==
    \A k \in 1..Len(attempts) :
        HeaderMagicWrong(k) =>
            attempts[k].status = "Header" /\ attempts[k].stage = "header"

\* what the code does at the footer position
FooterMismatchIsHeader ==
    \A k \in 1..Len(attempts) :
        FooterMagicWrong(k) => attempts[k].status = "Header"

(***************************************************************************)
(* C14, C15                                                                *)
(***************************************************************************)
\* the value of a u64 held in 8 bytes when it is below 2^31
IsSmall(b) == b[5] = 0 /\ b[6] = 0 /\ b[7] = 0 /\ b[8] = 0 /\ b[4] < 128
ValueOf(b) == b[1] + 256 * b[2] + 65536 * b[3] + 16777216 * b[4]

\* attempt k finds a whole header with the right magic
HeaderRead(k) ==
    /\ attempts[k].start + 40 <= Len(archive)
    /\ RecordAt(attempts[k].start).magic = MAGIC

\* where the path of attempt k ends and where its body ends
PathEnd(k) == attempts[k].start + 40 + RecordAt(attempts[k].start).path_len
BodyEnd(k) == PathEnd(k) + ValueOf(RecordAt(attempts[k].start).file_size)

\* attempt k finds header and path, and the stream ends before the end of
\* the body the header announces
CutInSkip(k) ==
    /\ HeaderRead(k)
    /\ PathEnd(k) <= Len(archive)
    /\ IsSmall(RecordAt(attempts[k].start).file_size)
    /\ BodyEnd(k) > Len(archive)

\* C14: when the stream ends before the file_size body bytes that follow
\* the path, the attempt ends with Crop.
C14_CutInSkipIsCrop ==
    \A k \in 1..Len(attempts) : CutInSkip(k) => attempts[k].status = "Crop"

\* what the code does on such a stream: the seek succeeds and the footer
\* read finds no bytes
CutInSkipIsExhausted ==
    \A k \in 1..Len(attempts) :
        CutInSkip(k) =>
            attempts[k].status = "Exhausted" /\ attempts[k].stage = "footer"

\* Crop comes from a short path and from a seek to before position 0
CropOnlyFrom ==
    \A k \in 1..Len(attempts) :
        attempts[k].status = "Crop" =>
            \/ attempts[k].stage = "path" /\ PathEnd(k) > Len(archive)
            \/ /\ attempts[k].stage = "seek"
               /\ ~IsSmall(RecordAt(attempts[k].start).file_size)

\* fewer bytes than a record at the header position of attempt k
ShortHeader(k) == attempts[k].start + 40 > Len(archive)

\* header found, fewer than path_len bytes for the path
ShortPath(k) == HeaderRead(k) /\ PathEnd(k) > Len(archive)

\* header and path found, the skip done, fewer bytes than a record at the
\* footer position
ShortFooter(k) ==
    /\ HeaderRead(k)
    /\ PathEnd(k) <= Len(archive)
    /\ IsSmall(RecordAt(attempts[k].start).file_size)
    /\ BodyEnd(k) + 40 > Len(archive)

\* C15: a short read is classified by its stage: Exhausted at the header
\* position, Crop in the path, Exhausted at the footer position; in none
\* of the three cases is an entry reported.
C15_ShortReads ==
    /\ \A k \in 1..Len(attempts) :
          /\ ShortHeader(k) =>
                attempts[k].status = "Exhausted" /\ attempts[k].stage = "header"
          /\ ShortPath(k) =>
                attempts[k].status = "Crop" /\ attempts[k].stage = "path"
          /\ ShortFooter(k) =>
                attempts[k].status = "Exhausted" /\ attempts[k].stage = "footer"
    /\ Len(reported) = Succeeded

\* an entry was reported and the next attempt found its header but only a
\* part of its path
C15_Witness ==
    /\ pc = "done"
    /\ Len(reported) = 1
    /\ Len(attempts) = 2
    /\ ShortPath(2)
    /\ RecordAt(attempts[2].start).path_len = 3
    /\ Len(archive) = attempts[2].start + 42

C15_WitnessHeader ==
    pc = "done" /\ Len(attempts) = 2 /\ ShortHeader(2)
        /\ Len(archive) > attempts[2].start

C15_WitnessFooter ==
    pc = "done" /\ Len(attempts) = 2 /\ ShortFooter(2)
        /\ Len(archive) > BodyEnd(2)

(***************************************************************************)
(* C16                                                                     *)
(***************************************************************************)
\* the checksum field of the record at position at is not the digest of
\* the 32 bytes before it
ChecksumWrong(at) ==
    RecordAt(at).checksum # digest(SubSeq(archive, at + 1, at + 32))

\* attempt k finds a whole entry: header and footer with the right magic
WholeEntry(k) ==
    /\ HeaderRead(k)
    /\ IsSmall(RecordAt(attempts[k].start).file_size)
    /\ BodyEnd(k) + 40 <= Len(archive)
    /\ RecordAt(BodyEnd(k)).magic = MAGIC

\* C16: the decoder never checks the checksum field: an entry whose header
\* and footer have the right magic is reported whatever their checksum
\* fields hold, and no attempt ends with the Checksum error.
C16_ChecksumUnchecked ==
    /\ \A k \in 1..Len(attempts) :
          /\ attempts[k].status # "Checksum"
          /\ WholeEntry(k) =>
                attempts[k].status = "Ok" /\ attempts[k].end = BodyEnd(k) + 40
    /\ Len(reported) = Succeeded

\* two entries were reported whose header and footer checksums are wrong
C16_Witness ==
    /\ Len(attempts) >= 2
    /\ Len(reported) >= 2
    /\ \A k \in 1..2 :
          /\ WholeEntry(k)
          /\ ChecksumWrong(attempts[k].start)
          /\ ChecksumWrong(BodyEnd(k))

(***************************************************************************)
(* C17                                                                     *)
(***************************************************************************)
\* the checksum field of a serialized record is the digest of its first
\* 32 bytes
Sealed(bytes) ==
    /\ Len(bytes) = 40
    /\ Rec(bytes).checksum = digest(SubSeq(bytes, 1, 32))

\* C17: the records append_to_archive serializes have their checksum set
\* to the digest of their own first 32 bytes, the header with the HEADER
\* bit and the footer without it, so that the assertions of set_checksum
\* and as_bytes hold.
C17_RecordsSealed ==
    (pc = "record" /\ probe.done) =>
        /\ probe.asserts
        /\ Sealed(probe.header_bytes)
        /\ Sealed(probe.footer_bytes)
        /\ HeaderBit(Rec(probe.header_bytes).flags)
        /\ ~HeaderBit(Rec(probe.footer_bytes).flags)

C17_Witness ==
    /\ pc = "record"
    /\ probe.done
    /\ probe.asserts
    /\ probe.in.file_size = U64(255)
    /\ probe.in.len = 65535
    /\ Sealed(probe.header_bytes)
    /\ Rec(probe.header_bytes).checksum # Rec(probe.footer_bytes).checksum

\* no call of append_to_archive ends in the panic of an assertion
NoAssertPanics == \A k \in 1..Len(calls) : calls[k].why # "assert"

(***************************************************************************)
(* C18                                                                     *)
(***************************************************************************)
\* C18: every successful attempt leaves the position strictly greater
\* than the position at which it started, for every value of file_size,
\* so that read ends on every finite stream.
C18_AttemptsAdvance ==
    \A k \in 1..Len(attempts) :
        attempts[k].status = "Ok" => attempts[k].end > attempts[k].start

\* the same where file_size is below 2^31: the attempt advances by
\* 80 + path_len + file_size
SmallSizesAdvance ==
    \A k \in 1..Len(attempts) :
        (attempts[k].status = "Ok"
            /\ IsSmall(RecordAt(attempts[k].start).file_size)) =>
                attempts[k].end = BodyEnd(k) + 40

\* read does not go on for MaxAttempts attempts
ReadEnds == Len(attempts) < MaxAttempts

(***************************************************************************)
(* C19                                                                     *)
(***************************************************************************)
\* C19: on an archive a successful recursive_archive produced, no attempt
\* ends with Header, Footer or Crop; the k-th successful attempt starts at
\* the header of the k-th entry and ends at the header of the next, and
\* read stops with Exhausted from a header read issued at the end of the
\* stream.
C19_ProducedArchiveDecodes ==
    /\ \A k \in 1..Len(attempts) :
          /\ attempts[k].status \in {"Ok", "Exhausted"}
          /\ attempts[k].status = "Ok" =>
                /\ k <= Len(calls)
                /\ attempts[k].start = calls[k].start
                /\ attempts[k].end = calls[k].end
    /\ pc = "done" =>
          /\ Len(attempts) = Len(calls) + 1
          /\ attempts[Len(attempts)].status = "Exhausted"
          /\ attempts[Len(attempts)].stage = "header"
          /\ attempts[Len(attempts)].start = Len(archive)

\* an archive of four entries, a file body among them, was decoded to its
\* end
C19_Witness ==
    /\ pc = "done"
    /\ Len(calls) = 4
    /\ Len(attempts) = 5
    /\ Len(archive) > 4 * 80 + MaxFileSize
    /\ MaxFileSize > 0
    /\ attempts[5].start = Len(archive)

(***************************************************************************)
(* C20                                                                     *)
(***************************************************************************)
\* the number of bytes between the path and the footer of the entry in probe
BodyBytes == probe.written_len - 80 - probe.in.len

\* C20: in a File entry the header's file_size is the number of body
\* bytes between the path and the footer, also when another process
\* appends to the file or truncates it between the reading of its size
\* and the copying of its content.
C20_SizeIsBodyLength ==
    (pc = "race" /\ probe.done) =>
        /\ probe.status = "ok"
        /\ ValueOf(Rec(probe.header_bytes).file_size) = BodyBytes
        /\ ValueOf(Rec(probe.footer_bytes).file_size) = BodyBytes

\* the same for a file that no one changes
UnchangedSizeIsBodyLength ==
    (pc = "race" /\ probe.done /\ probe.in.change = "none") =>
        /\ probe.status = "ok"
        /\ ValueOf(Rec(probe.header_bytes).file_size) = BodyBytes
        /\ BodyBytes = probe.in.size

\* in a changed file file_size is the length read at line 136, the body
\* the content found at line 169
ChangedSizeIsOldLength ==
    (pc = "race" /\ probe.done) =>
        /\ ValueOf(Rec(probe.header_bytes).file_size) = probe.in.size
        /\ BodyBytes = Len(Changed(probe.in.size, probe.in.change))

====
